---------------------------- MODULE Spec2Model ----------------------------
(***************************************************************************)
(* Model of the mushroom classifier repository.                            *)
(*                                                                         *)
(* The repository holds two independent programs:                          *)
(*   - streamlit_app.py: the Streamlit script, whose main() is re-run by   *)
(*     Streamlit on every interaction (prog = "app");                      *)
(*   - utils.py: the MushroomClassifier class (prog = "lib") and the       *)
(*     module-level helper functions.                                      *)
(* A third kind of behaviour (prog = "fn") applies the pure functions of   *)
(* both files (the three preprocessing functions, validate_image) to       *)
(* inputs drawn from bounded sets.                                         *)
(*                                                                         *)
(* Numbers.  A model output p is a fixed-point number: the integer p       *)
(* stands for p / Scale.  Percentages are kept in the same unit, so the    *)
(* integer c stands for c / Scale percent.  On this domain the Python      *)
(* float operations used by the code (1.0 - p, max, p * 100) are exact or  *)
(* round back to the exact sum, so they are modelled by integer            *)
(* arithmetic; NaN, infinities and magnitudes above 2^53 are outside the   *)
(* domain.                                                                 *)
(*                                                                         *)
(* Images.  An image value is a record                                     *)
(*   [kind, fault, mode, size, vals]                                       *)
(* kind  : the Python type of the argument ("str" a file path, "ndarray",  *)
(*         "Image" a PIL image, "other" anything else);                    *)
(* fault : the first library call that raises on it: "open" (Image.open    *)
(*         cannot identify or find the file), "decode" (the pixel data     *)
(*         cannot be loaded: raised by the first call that loads it),      *)
(*         "prep" (a PIL / numpy call inside preprocessing raises, e.g.    *)
(*         Image.fromarray on an unsupported shape), or "none";            *)
(* mode  : PIL mode (for an ndarray: the mode Image.fromarray derives      *)
(*         from its shape);                                                *)
(* size  : <<width, height>>;                                              *)
(* vals  : the set of sample values that occur in its pixel data.          *)
(***************************************************************************)
EXTENDS Integers, Sequences, FiniteSets, TLC

(***************************************************************************)
(* Bounds of the model.                                                    *)
(***************************************************************************)
\* resolution of the fixed-point grid of model outputs
Scale == 4
\* longest list handed to predict_batch
MaxBatch == 2
\* largest max_size_mb handed to validate_image
MaxSizeMb == 2

(***************************************************************************)
(* Program constants.                                                      *)
(***************************************************************************)
\* streamlit_app.py:66, utils.py:19 (default img_size)
IMG_SIDE == 224
IMG_SIZE == <<IMG_SIDE, IMG_SIDE>>
\* divisor of the normalisation, utils.py:81
PIXEL_MAX == 255
\* range of numpy uint8
UINT8_RANGE == 256
\* utils.py:235
KIB == 1024
\* utils.py:219
DEFAULT_MAX_SIZE_MB == 16
\* the 0.5 threshold is written 2 * p > Scale; percent factor, streamlit_app.py:140
PERCENT == 100
CLASS_NAMES == <<"Edible", "Poisonous">>

None == [kind |-> "None"]
Raise(e) == [kind |-> "raise", exc |-> e]
Max(a, b) == IF a >= b THEN a ELSE b

(***************************************************************************)
(* PIL / numpy primitives used by the preprocessing functions.             *)
(***************************************************************************)
\* Image.open(path): lazy, reads the header only
ImageOpen(f) ==
    IF f.fault = "open" THEN Raise("UnidentifiedImageError")
    ELSE [f EXCEPT !.kind = "Image"]

\* ndarray.astype('uint8'): integer values wrap modulo 256
AsTypeUint8(a) == [a EXCEPT !.vals = {v % UINT8_RANGE : v \in a.vals}]

\* Image.fromarray(a)
ImageFromArray(a) ==
    IF a.fault = "prep" THEN Raise("TypeError")
    ELSE [a EXCEPT !.kind = "Image"]

\* number of bands of a PIL mode
Bands(mode) == CASE mode = "L" -> 1 [] mode = "RGB" -> 3 [] mode = "RGBA" -> 4

\* image.convert('RGB'): loads the pixel data
ConvertRGB(im) ==
    IF im.fault # "none" THEN Raise("OSError")
    ELSE [im EXCEPT !.mode = "RGB"]

\* image.resize(size, Image.LANCZOS): loads the pixel data; the result has
\* the requested size; a constant image stays constant, otherwise a sample
\* may be any byte (Lanczos overshoots and is clipped to 0..255)
Resize(im, size) ==
    IF im.fault # "none" THEN Raise("OSError")
    ELSE [im EXCEPT !.size = size,
                    !.vals = IF Cardinality(im.vals) <= 1 THEN im.vals
                             ELSE 0 .. (UINT8_RANGE - 1)]

\* np.array(image): shape (height, width) for one band, else (height, width, bands)
ToArray(im) ==
    [kind |-> "tensor",
     shape |-> IF Bands(im.mode) = 1 THEN <<im.size[2], im.size[1]>>
               ELSE <<im.size[2], im.size[1], Bands(im.mode)>>,
     num |-> im.vals,
     den |-> 1]

\* img_array.astype('float32') / 255.0 : element v becomes v / 255
Normalize(t) == [t EXCEPT !.den = t.den * PIXEL_MAX]

\* np.expand_dims(img_array, axis=0)
ExpandDims(t) == [t EXCEPT !.shape = <<1>> \o t.shape]

\* mutant: the conversion to RGB is left out
ConvertSkipped(im) == im

\* the common tail of the three functions: convert, resize, array,
\* normalise, batch dimension
ConvertIfNeeded(im) == IF im.mode # "RGB" THEN ConvertRGB(im) ELSE im

ResizeAndScale(im, size) ==
    LET rgb == ConvertIfNeeded(im) IN
    IF rgb.kind = "raise" THEN rgb
    ELSE LET small == Resize(rgb, size) IN
         IF small.kind = "raise" THEN small
         ELSE ExpandDims(Normalize(ToArray(small)))

(***************************************************************************)
(* utils.py: MushroomClassifier.preprocess_image(self, image)              *)
(***************************************************************************)
ClassPreprocessImage(image, img_size) ==
    LET im == IF image.kind = "str" THEN ImageOpen(image)
              ELSE IF image.kind = "ndarray" THEN ImageFromArray(AsTypeUint8(image))
              ELSE IF image.kind # "Image"
                   THEN Raise("ValueError")
              ELSE image
    IN IF im.kind = "raise" THEN im ELSE ResizeAndScale(im, img_size)

(***************************************************************************)
(* streamlit_app.py: preprocess_image(image).  Every exception is caught,  *)
(* reported with st.error and turned into None.  A str or any other        *)
(* object without a .mode attribute raises AttributeError at line 97.      *)
(***************************************************************************)
AppPreprocessRaw(image) ==
    LET im == IF image.kind = "ndarray" THEN ImageFromArray(AsTypeUint8(image))
              ELSE image
    IN IF im.kind = "raise" THEN im
       ELSE IF im.kind # "Image" THEN Raise("AttributeError")
       ELSE ResizeAndScale(im, IMG_SIZE)

AppPreprocessImage(image) ==
    LET r == AppPreprocessRaw(image) IN
    IF r.kind = "raise" THEN None ELSE r

(***************************************************************************)
(* utils.py: preprocess_image_simple(image_path, img_size).  Image.open    *)
(* takes a path; an ndarray or a PIL image has no read() and raises.       *)
(***************************************************************************)
PreprocessImageSimple(image_path, img_size) ==
    LET im == IF image_path.kind = "str" THEN ImageOpen(image_path)
              ELSE Raise("AttributeError")
    IN IF im.kind = "raise" THEN im ELSE ResizeAndScale(im, img_size)

(***************************************************************************)
(* The loaded network.  A handle is what keras.models.load_model returns;  *)
(* id n is the handle made by the n-th read of the model file.  What the   *)
(* network does on a picture is part of the input: image.raises says that  *)
(* model.predict raises on it, image.out is the output prediction[0][0].   *)
(***************************************************************************)
Handle(n) == [kind |-> "model", id |-> n]
Empty == [kind |-> "empty"]
RaiseMsg(e, m) == [kind |-> "raise", exc |-> e, msg |-> m]
Event(e, h) == [ev |-> e, h |-> h]

\* model.predict(processed_image, verbose=0)
ModelPredict(image) ==
    IF image.raises THEN Raise("InferenceError")
    ELSE [kind |-> "prediction", value |-> image.out]

\* mutant: the confidence is the poisonous probability, not the larger one
LibResultNoMax(poisonous_prob) ==
    LET edible_prob == Scale - poisonous_prob IN
    [kind |-> "result",
     prediction |-> IF 2 * poisonous_prob > Scale THEN CLASS_NAMES[2]
                    ELSE CLASS_NAMES[1],
     confidence |-> poisonous_prob,
     probabilities |-> [edible |-> edible_prob, poisonous |-> poisonous_prob],
     is_poisonous |-> 2 * poisonous_prob > Scale]

(***************************************************************************)
(* utils.py: MushroomClassifier.predict, lines 109-127: the result         *)
(* dictionary built from poisonous_prob.                                   *)
(***************************************************************************)
LibResult(poisonous_prob) ==
    LET edible_prob == Scale - poisonous_prob IN
    [kind |-> "result",
     prediction |-> IF 2 * poisonous_prob > Scale THEN CLASS_NAMES[2]
                    ELSE CLASS_NAMES[1],
     confidence |-> Max(poisonous_prob, edible_prob),
     probabilities |-> [edible |-> edible_prob, poisonous |-> poisonous_prob],
     is_poisonous |-> 2 * poisonous_prob > Scale]

\* mutant: the edible probability is clamped at 0
AppResultClamped(poisonous_prob) ==
    LET edible_prob == Max(0, Scale - poisonous_prob) IN
    [kind |-> "result",
     prediction |-> IF 2 * poisonous_prob > Scale THEN "Poisonous" ELSE "Edible",
     confidence |-> Max(poisonous_prob, edible_prob) * PERCENT,
     edible_prob |-> edible_prob * PERCENT,
     poisonous_prob |-> poisonous_prob * PERCENT,
     is_poisonous |-> 2 * poisonous_prob > Scale]

(***************************************************************************)
(* streamlit_app.py: predict_mushroom, lines 132-148.                      *)
(***************************************************************************)
AppResult(poisonous_prob) ==
    LET edible_prob == Scale - poisonous_prob IN
    [kind |-> "result",
     prediction |-> IF 2 * poisonous_prob > Scale THEN "Poisonous" ELSE "Edible",
     confidence |-> Max(poisonous_prob, edible_prob) * PERCENT,
     edible_prob |-> edible_prob * PERCENT,
     poisonous_prob |-> poisonous_prob * PERCENT,
     is_poisonous |-> 2 * poisonous_prob > Scale]

(***************************************************************************)
(* utils.py: MushroomClassifier.load_model (called by __init__).           *)
(* exists: os.path.exists(model_path); loadable: keras can load the file.  *)
(***************************************************************************)
LibLoadModel(exists, loadable) ==
    IF ~exists THEN [model |-> None, ret |-> FALSE, read |-> FALSE]
    ELSE IF ~loadable THEN [model |-> None, ret |-> FALSE, read |-> TRUE]
    ELSE [model |-> Handle(1), ret |-> TRUE, read |-> TRUE]

(***************************************************************************)
(* utils.py: MushroomClassifier.predict(self, image).  Returns the outcome *)
(* (a result or a raised RuntimeError) and the calls it made.  The         *)
(* return_probs argument is never read by the code.                        *)
(***************************************************************************)
LibPredict(self_model, self_img_size, image) ==
    IF self_model = None
    THEN [ret |-> RaiseMsg("RuntimeError", "Model not loaded"), trace |-> <<>>]
    ELSE LET processed_image == ClassPreprocessImage(image, self_img_size)
             pre == <<Event("preprocess_image", 0)>>
         IN IF processed_image.kind = "raise"
            THEN [ret |-> RaiseMsg("RuntimeError", "Prediction failed"),
                  trace |-> pre]
            ELSE LET prediction == ModelPredict(image)
                     inf == pre \o <<Event("model.predict", self_model.id)>>
                 IN IF prediction.kind = "raise"
                    THEN [ret |-> RaiseMsg("RuntimeError", "Prediction failed"),
                          trace |-> inf]
                    ELSE [ret |-> LibResult(prediction.value), trace |-> inf]

(***************************************************************************)
(* utils.py: MushroomClassifier.predict_batch(self, images): the loop of   *)
(* lines 147-155, from image i on, with the results appended so far.       *)
(***************************************************************************)
RECURSIVE BatchLoop(_, _, _, _, _, _)
BatchLoop(self_model, self_img_size, images, i, results, trace) ==
    IF i > Len(images) THEN [ret |-> [kind |-> "list", items |-> results],
                             trace |-> trace]
    ELSE LET r == LibPredict(self_model, self_img_size, images[i])
             entry == IF r.ret.kind = "raise"
                      THEN [kind |-> "error", error |-> r.ret.msg]
                      ELSE r.ret
         IN BatchLoop(self_model, self_img_size, images, i + 1,
                      Append(results, entry), trace \o r.trace)

\* mutant: predict_batch without the check of lines 144-145
LibPredictBatchUnchecked(self_model, self_img_size, images) ==
    BatchLoop(self_model, self_img_size, images, 1, <<>>, <<>>)

\* mutant: the try of lines 149-153 around the loop, so that the first
\* failure ends the batch
LibPredictBatchFailFast(self_model, self_img_size, images) ==
    IF self_model = None
    THEN [ret |-> RaiseMsg("RuntimeError", "Model not loaded"), trace |-> <<>>]
    ELSE LET all == BatchLoop(self_model, self_img_size, images, 1, <<>>, <<>>)
             bad == {i \in 1 .. Len(images) : all.ret.items[i].kind = "error"}
         IN IF bad = {} THEN all
            ELSE LET first == CHOOSE i \in bad : \A j \in bad : i <= j IN
                 [ret |-> [kind |-> "list",
                           items |-> Append(SubSeq(all.ret.items, 1, first - 1),
                                            all.ret.items[first])],
                  trace |-> all.trace]

LibPredictBatch(self_model, self_img_size, images) ==
    IF self_model = None
    THEN [ret |-> RaiseMsg("RuntimeError", "Model not loaded"), trace |-> <<>>]
    ELSE BatchLoop(self_model, self_img_size, images, 1, <<>>, <<>>)

(***************************************************************************)
(* utils.py: validate_image(image_path, max_size_mb).  file: what is at    *)
(* the path: exists, its size in bytes, and whether PIL opens and verifies *)
(* it.  file_size_mb > max_size_mb is compared in bytes (the division by   *)
(* 1024 * 1024 is exact).                                                  *)
(***************************************************************************)
Str(t) == [kind |-> "str", text |-> t]

\* mutant: the size check rejects a file of exactly max_size_mb
ValidateImageGe(file, max_size_mb) ==
    IF ~file.exists
    THEN [kind |-> "tuple", is_valid |-> FALSE,
          error_message |-> Str("File does not exist")]
    ELSE IF file.bytes >= max_size_mb * (KIB * KIB)
    THEN [kind |-> "tuple", is_valid |-> FALSE,
          error_message |-> Str("File too large")]
    ELSE IF file.verifies
    THEN [kind |-> "tuple", is_valid |-> TRUE, error_message |-> None]
    ELSE [kind |-> "tuple", is_valid |-> FALSE,
          error_message |-> Str("Invalid image file")]

ValidateImage(file, max_size_mb) ==
    IF ~file.exists
    THEN [kind |-> "tuple", is_valid |-> FALSE,
          error_message |-> Str("File does not exist")]
    ELSE IF file.bytes > max_size_mb * (KIB * KIB)
    THEN [kind |-> "tuple", is_valid |-> FALSE,
          error_message |-> Str("File too large")]
    ELSE IF file.verifies
    THEN [kind |-> "tuple", is_valid |-> TRUE, error_message |-> None]
    ELSE [kind |-> "tuple", is_valid |-> FALSE,
          error_message |-> Str("Invalid image file")]

(***************************************************************************)
(* streamlit_app.py: load_model() under @st.cache_resource.  cache is the  *)
(* value cached by an earlier run (Empty: none yet; a cached None is a     *)
(* value too).  On a miss the body runs: lines 73-83.  Returns the value,  *)
(* the new cache, the number of reads of the model file and the elements   *)
(* the body displayed.                                                     *)
(***************************************************************************)
El3(e, t, v) == [kind |-> "element", el |-> e, text |-> t, value |-> v]
El(e, t) == El3(e, t, 0)

AppLoadModelBody(exists, loadable, n) ==
    IF ~exists
    THEN [ret |-> None, read |-> FALSE,
          msgs |-> <<El("error", "Model file not found"), El("info", "ensure model")>>]
    ELSE IF ~loadable
    THEN [ret |-> None, read |-> TRUE,
          msgs |-> <<El("error", "Error loading model")>>]
    ELSE [ret |-> Handle(n), read |-> TRUE, msgs |-> <<>>]

\* mutant: load_model without @st.cache_resource
AppLoadModelUncached(cached, exists, loadable, reads) ==
    LET b == AppLoadModelBody(exists, loadable, reads + 1) IN
    [ret |-> b.ret, cache |-> b.ret,
     loads |-> IF b.read THEN reads + 1 ELSE reads, msgs |-> b.msgs]

AppLoadModel(cached, exists, loadable, reads) ==
    IF cached # Empty
    THEN [ret |-> cached, cache |-> cached, loads |-> reads, msgs |-> <<>>]
    ELSE LET b == AppLoadModelBody(exists, loadable, reads + 1) IN
         [ret |-> b.ret, cache |-> b.ret,
          loads |-> IF b.read THEN reads + 1 ELSE reads, msgs |-> b.msgs]

\* main, lines 175-177: the script stops when there is no model
AppMustStop(m) == m = None

\* mutant: predict_mushroom without the check of lines 125-126
AppNeverSkip(processed_image) == FALSE

\* predict_mushroom, lines 125-126: no inference without a tensor
AppSkipInference(processed_image) == processed_image = None

\* main, line 206: render only a result
AppMustRender(r) == r # None

\* mutant: the box chosen by poisonous_prob >= 50
AppVerdictBoxByProb(r) ==
    IF r.poisonous_prob * 2 >= PERCENT * Scale
    THEN El3("danger-box", "Poisonous", r.confidence)
    ELSE El3("success-box", "Edible", r.confidence)

\* main, lines 208-225: the box and its heading
AppVerdictBox(r) ==
    IF r.is_poisonous THEN El3("danger-box", "Poisonous", r.confidence)
    ELSE El3("success-box", "Edible", r.confidence)

\* main, lines 227-250: the probability breakdown
AppBreakdown(r) ==
    <<El3("metric", "Edible", r.edible_prob),
      El3("metric", "Poisonous", r.poisonous_prob)>>

\* st.image(image): encodes the image for the browser, which loads its
\* pixel data
StImage(im) ==
    IF im.fault = "decode" THEN Raise("OSError") ELSE El("image", "uploaded")

HandleId(m) == IF m.kind = "model" THEN m.id ELSE 0

(***************************************************************************)
(* Inputs.                                                                 *)
(***************************************************************************)
Outputs == (0 - Scale) .. (2 * Scale)
Modes == {"RGB", "RGBA", "L"}
Sizes == {<<1, 1>>, <<640, 480>>, IMG_SIZE}
ImgSizes == {IMG_SIZE, <<32, 64>>}
ByteVals == {{0}, {PIXEL_MAX}, {10, 200}}
ArrayVals == ByteVals \cup {{0 - 1, UINT8_RANGE}, {300}}

Picture(k, f, m, s, v, r, o) ==
    [kind |-> k, fault |-> f, mode |-> m, size |-> s, vals |-> v,
     raises |-> r, out |-> o]

\* the faults a value of each Python type can have
FaultsOf(k) == CASE k = "str" -> {"none", "open", "decode"}
                 [] k = "Image" -> {"none", "decode", "prep"}
                 [] k = "ndarray" -> {"none", "prep"}
                 [] k = "file" -> {"none", "open", "decode", "prep"}
                 [] OTHER -> {"none"}

\* arguments of the preprocessing functions
FnInputs ==
    {Picture(k, f, m, s, v, FALSE, 0) :
        k \in {"str", "Image"}, f \in {"none", "open", "decode", "prep"},
        m \in Modes, s \in Sizes, v \in ByteVals}
    \cup {Picture("ndarray", f, m, s, v, FALSE, 0) :
        f \in {"none", "prep"}, m \in Modes, s \in Sizes, v \in ArrayVals}
    \cup {Picture("other", "none", "RGB", <<1, 1>>, {0}, FALSE, 0)}

ValidFnInputs == {x \in FnInputs : x.fault \in FaultsOf(x.kind)}

\* what the network does on a picture: raise, or an output
Responses == {[raises |-> TRUE, out |-> 0]}
             \cup {[raises |-> FALSE, out |-> o] : o \in Outputs}

\* arguments of MushroomClassifier.predict
LibShapes == {<<"Image", "none", "RGBA">>, <<"str", "none", "RGB">>,
              <<"ndarray", "none", "L">>, <<"other", "none", "RGB">>,
              <<"str", "open", "RGB">>, <<"Image", "decode", "RGB">>,
              <<"ndarray", "prep", "RGB">>}
LibImages ==
    {Picture(t[1], t[2], t[3], <<640, 480>>, {10, 200}, r.raises, r.out) :
        t \in LibShapes, r \in Responses}

\* elements of the lists handed to predict_batch
BatchImages ==
    {Picture("Image", "none", "RGB", <<640, 480>>, {10, 200}, FALSE, 1),
     Picture("Image", "none", "RGB", <<640, 480>>, {10, 200}, FALSE, Scale - 1),
     Picture("Image", "none", "RGB", <<640, 480>>, {10, 200}, TRUE, 0),
     Picture("other", "none", "RGB", <<640, 480>>, {10, 200}, FALSE, 1),
     Picture("str", "open", "RGB", <<640, 480>>, {10, 200}, FALSE, 1)}
Batches == UNION {[1 .. n -> BatchImages] : n \in 0 .. MaxBatch}

\* files a user uploads
Uploads ==
    {Picture("file", f, m, <<640, 480>>, {10, 200}, r.raises, r.out) :
        f \in FaultsOf("file"), m \in Modes, r \in Responses}

\* files handed to validate_image, and its max_size_mb
MaxSizes == (1 .. MaxSizeMb) \cup {DEFAULT_MAX_SIZE_MB}
FileSizes == {0} \cup UNION {{m * KIB * KIB - 1, m * KIB * KIB, m * KIB * KIB + 1} :
                              m \in MaxSizes}
Files == [exists : BOOLEAN, bytes : FileSizes, verifies : BOOLEAN]

(***************************************************************************)
(* State.                                                                  *)
(*   prog      which program this behaviour runs: "app", "lib" or "fn"     *)
(*   pc        position: of main() in the app; "new" / "ready" in lib      *)
(*   cache     app: the value st.cache_resource holds for load_model       *)
(*   loads     number of reads of the model file (keras load_model calls)  *)
(*   model     app: main's local model; lib: self.model                    *)
(*   img_size  lib: self.img_size                                          *)
(*   arg       app: uploaded_file; lib, fn: the arguments of the last call *)
(*   image     app: main's local image                                     *)
(*   processed app: predict_mushroom's processed_image                     *)
(*   result    app: main's result; lib, fn: outcome of the last call       *)
(*   trace     the steps of the current run (app) or last call (lib)       *)
(*   screen    app: the elements displayed by the current run              *)
(*   used      ids of the model handles inference was run on so far        *)
(***************************************************************************)
VARIABLES prog, pc, cache, loads, model, img_size, arg, image, processed,
          result, trace, screen, used

vars == <<prog, pc, cache, loads, model, img_size, arg, image, processed,
          result, trace, screen, used>>

Init ==
    /\ prog \in {"app", "lib", "fn"}
    /\ pc = IF prog = "app" THEN "idle" ELSE IF prog = "lib" THEN "new" ELSE "fn"
    /\ cache = Empty
    /\ loads = 0
    /\ model = None
    /\ img_size = IMG_SIZE
    /\ arg = None
    /\ image = None
    /\ processed = None
    /\ result = None
    /\ trace = <<>>
    /\ screen = <<>>
    /\ used = {}

(***************************************************************************)
(* prog = "fn": one call of a pure function on drawn arguments.            *)
(***************************************************************************)
FnClassPreprocess ==
    /\ prog = "fn" /\ pc = "fn"
    /\ \E x \in ValidFnInputs, sz \in ImgSizes :
        /\ arg' = [fn |-> "MushroomClassifier.preprocess_image", image |-> x,
                   img_size |-> sz]
        /\ result' = ClassPreprocessImage(x, sz)
    /\ pc' = "returned"
    /\ UNCHANGED <<prog, cache, loads, model, img_size, image, processed,
                   trace, screen, used>>

FnAppPreprocess ==
    /\ prog = "fn" /\ pc = "fn"
    /\ \E x \in ValidFnInputs :
        /\ arg' = [fn |-> "preprocess_image", image |-> x, img_size |-> IMG_SIZE]
        /\ result' = AppPreprocessImage(x)
    /\ pc' = "returned"
    /\ UNCHANGED <<prog, cache, loads, model, img_size, image, processed,
                   trace, screen, used>>

FnSimplePreprocess ==
    /\ prog = "fn" /\ pc = "fn"
    /\ \E x \in ValidFnInputs, sz \in ImgSizes :
        /\ arg' = [fn |-> "preprocess_image_simple", image |-> x, img_size |-> sz]
        /\ result' = PreprocessImageSimple(x, sz)
    /\ pc' = "returned"
    /\ UNCHANGED <<prog, cache, loads, model, img_size, image, processed,
                   trace, screen, used>>

FnValidate ==
    /\ prog = "fn" /\ pc = "fn"
    /\ \E f \in Files, m \in MaxSizes :
        /\ arg' = [fn |-> "validate_image", file |-> f, max_size_mb |-> m]
        /\ result' = ValidateImage(f, m)
    /\ pc' = "returned"
    /\ UNCHANGED <<prog, cache, loads, model, img_size, image, processed,
                   trace, screen, used>>

(***************************************************************************)
(* prog = "lib": one MushroomClassifier.                                   *)
(***************************************************************************)
\* MushroomClassifier(model_path, img_size): __init__ and its load_model
LibConstruct ==
    /\ prog = "lib" /\ pc = "new"
    /\ \E exists \in BOOLEAN, loadable \in BOOLEAN, sz \in ImgSizes :
        LET l == LibLoadModel(exists, loadable) IN
        /\ model' = l.model
        /\ img_size' = sz
        /\ loads' = IF l.read THEN loads + 1 ELSE loads
        /\ arg' = [fn |-> "__init__", exists |-> exists, loadable |-> loadable]
        /\ result' = [kind |-> "constructed", load_model |-> l.ret]
    /\ pc' = "ready"
    /\ trace' = <<Event("load_model", 0)>>
    /\ UNCHANGED <<prog, cache, image, processed, screen, used>>

Inferred(tr) == {tr[i].h : i \in {j \in 1 .. Len(tr) : tr[j].ev = "model.predict"}}

\* classifier.predict(image)
LibCallPredict ==
    /\ prog = "lib" /\ pc = "ready"
    /\ \E x \in LibImages :
        LET r == LibPredict(model, img_size, x) IN
        /\ arg' = [fn |-> "predict", image |-> x]
        /\ result' = r.ret
        /\ trace' = r.trace
        /\ used' = used \cup Inferred(r.trace)
    /\ UNCHANGED <<prog, pc, cache, loads, model, img_size, image, processed,
                   screen>>

\* classifier.predict_batch(images)
LibCallPredictBatch ==
    /\ prog = "lib" /\ pc = "ready"
    /\ \E xs \in Batches :
        LET r == LibPredictBatch(model, img_size, xs) IN
        /\ arg' = [fn |-> "predict_batch", images |-> xs]
        /\ result' = r.ret
        /\ trace' = r.trace
        /\ used' = used \cup Inferred(r.trace)
    /\ UNCHANGED <<prog, pc, cache, loads, model, img_size, image, processed,
                   screen>>

(***************************************************************************)
(* prog = "app": runs of main().  A run ends in pc = "done" (the script    *)
(* ran to its end), "stopped" (st.stop()) or "crashed" (an exception left  *)
(* main uncaught).  Streamlit then re-runs the script on the next          *)
(* interaction; only the st.cache_resource cache outlives a run.           *)
(***************************************************************************)
AppEnded == pc \in {"done", "stopped", "crashed"}

\* a run starts: lines 158-173, model = load_model()
AppRun ==
    /\ prog = "app"
    /\ pc = "idle" \/ AppEnded
    /\ \E exists \in BOOLEAN, loadable \in BOOLEAN :
        LET l == AppLoadModel(cache, exists, loadable, loads) IN
        /\ model' = l.ret
        /\ cache' = l.cache
        /\ loads' = l.loads
        /\ screen' = l.msgs
    /\ trace' = <<Event("load_model", 0)>>
    /\ arg' = None /\ image' = None /\ processed' = None /\ result' = None
    /\ pc' = "loaded"
    /\ UNCHANGED <<prog, img_size, used>>

\* lines 175-177: no model, st.error and st.stop()
AppStop ==
    /\ prog = "app" /\ pc = "loaded"
    /\ AppMustStop(model)
    /\ screen' = Append(screen, El("error", "Cannot proceed without a valid model"))
    /\ pc' = "stopped"
    /\ UNCHANGED <<prog, cache, loads, model, img_size, arg, image, processed,
                   result, trace, used>>

\* lines 179-189: st.success and the file uploader
AppUploader ==
    /\ prog = "app" /\ pc = "loaded"
    /\ ~AppMustStop(model)
    /\ \E f \in {None} \cup Uploads :
        /\ arg' = f
        /\ pc' = IF f = None THEN "footer" ELSE "uploaded"
    /\ screen' = Append(screen, El("success", "Model loaded successfully"))
    /\ trace' = Append(trace, Event("file_uploader", 0))
    /\ UNCHANGED <<prog, cache, loads, model, img_size, image, processed,
                   result, used>>

\* line 191: image = Image.open(uploaded_file), outside any try
AppOpenImage ==
    /\ prog = "app" /\ pc = "uploaded"
    /\ LET im == ImageOpen(arg) IN
        IF im.kind = "raise"
        THEN /\ pc' = "crashed"
             /\ UNCHANGED image
        ELSE /\ pc' = "opened"
             /\ image' = im
    /\ trace' = Append(trace, Event("Image.open", 0))
    /\ UNCHANGED <<prog, cache, loads, model, img_size, arg, processed,
                   result, screen, used>>

\* lines 193-198: st.image(image) and the caption, outside any try
AppShowImage ==
    /\ prog = "app" /\ pc = "opened"
    /\ LET e == StImage(image) IN
        IF e.kind = "raise"
        THEN /\ pc' = "crashed"
             /\ UNCHANGED screen
        ELSE /\ pc' = "shown"
             /\ screen' = screen \o <<e, El("caption", "Size")>>
    /\ trace' = Append(trace, Event("st.image", 0))
    /\ UNCHANGED <<prog, cache, loads, model, img_size, arg, image, processed,
                   result, used>>

\* predict_mushroom, lines 121-126: processed_image = preprocess_image(image)
AppPreprocess ==
    /\ prog = "app" /\ pc = "shown"
    /\ LET t == AppPreprocessImage(image) IN
        /\ processed' = t
        /\ screen' = IF t = None
                     THEN Append(screen, El("error", "Error preprocessing image"))
                     ELSE screen
        /\ trace' = Append(trace, Event("preprocess_image", IF t = None THEN 0 ELSE 1))
        /\ pc' = IF AppSkipInference(t) THEN "predicted" ELSE "preprocessed"
    /\ result' = None
    /\ UNCHANGED <<prog, cache, loads, model, img_size, arg, image, used>>

\* predict_mushroom, lines 128-154: model.predict and the result
AppInfer ==
    /\ prog = "app" /\ pc = "preprocessed"
    /\ LET prediction == IF processed = None THEN Raise("ValueError")
                         ELSE ModelPredict(image)
       IN IF prediction.kind = "raise"
          THEN /\ result' = None
               /\ screen' = Append(screen, El("error", "Error during prediction"))
          ELSE /\ result' = AppResult(prediction.value)
               /\ UNCHANGED screen
    /\ trace' = Append(trace, Event("model.predict", HandleId(model)))
    /\ used' = used \cup {HandleId(model)}
    /\ pc' = "predicted"
    /\ UNCHANGED <<prog, cache, loads, model, img_size, arg, image, processed>>

\* main, lines 204-250: the verdict and the probabilities
AppRender ==
    /\ prog = "app" /\ pc = "predicted"
    /\ IF AppMustRender(result)
       THEN /\ screen' = Append(screen, AppVerdictBox(result)) \o AppBreakdown(result)
            /\ trace' = Append(trace, Event("render", 0))
       ELSE UNCHANGED <<screen, trace>>
    /\ pc' = "footer"
    /\ UNCHANGED <<prog, cache, loads, model, img_size, arg, image, processed,
                   result, used>>

\* main, lines 252-293: disclaimer and footer; the run ends
AppFooter ==
    /\ prog = "app" /\ pc = "footer"
    /\ screen' = Append(screen, El("warning-box", "IMPORTANT DISCLAIMER"))
    /\ pc' = "done"
    /\ UNCHANGED <<prog, cache, loads, model, img_size, arg, image, processed,
                   result, trace, used>>

Next ==
    \/ FnClassPreprocess \/ FnAppPreprocess \/ FnSimplePreprocess \/ FnValidate
    \/ LibConstruct \/ LibCallPredict \/ LibCallPredictBatch
    \/ AppRun \/ AppStop \/ AppUploader \/ AppOpenImage \/ AppShowImage
    \/ AppPreprocess \/ AppInfer \/ AppRender \/ AppFooter

Spec == Init /\ [][Next]_vars

(***************************************************************************)
(* Helpers of the properties.                                              *)
(***************************************************************************)
Count(tr, e) == Cardinality({i \in 1 .. Len(tr) : tr[i].ev = e})
Shown(e) == {i \in 1 .. Len(screen) : screen[i].el = e}
HasError == Shown("error") # {}
Before(tr, e, i) == \E j \in 1 .. (i - 1) : tr[j] = e

\* the successful results of the last library call, each with the model
\* output p it was computed from
LibOutcomes ==
    IF prog # "lib" THEN {}
    ELSE IF result.kind = "result" THEN {[p |-> arg.image.out, r |-> result]}
    ELSE IF result.kind = "list"
    THEN {[p |-> arg.images[i].out, r |-> result.items[i]] :
            i \in {j \in 1 .. Len(result.items) : result.items[j].kind = "result"}}
    ELSE {}

\* the successful result of predict_mushroom in the current run
AppOutcomes ==
    IF prog = "app" /\ result.kind = "result"
    THEN {[p |-> image.out, r |-> result]} ELSE {}

(***************************************************************************)
(* C1.  Every failure of a request of the app (no model, a corrupt         *)
(* upload, an inference that raises) ends in a displayed error message     *)
(* and never in an uncaught exception, and no step of the run is repeated. *)
(***************************************************************************)
C1_FailuresSurfaced ==
    prog = "app" =>
        /\ pc # "crashed"
        /\ \A i \in 1 .. Len(trace) : Count(trace, trace[i].ev) = 1
        /\ (pc = "stopped" => HasError)
        /\ (pc = "done" /\ arg # None /\ result = None => HasError)

(***************************************************************************)
(* C2.  Confidence is at least 50%: in every successful result of          *)
(* MushroomClassifier.predict (alone or as an entry of predict_batch)      *)
(* confidence >= 0.5, and in every successful result of predict_mushroom   *)
(* confidence >= 50, for every model output p; it is the larger of p and   *)
(* 1 - p.                                                                  *)
(***************************************************************************)
C2_ConfidenceAtLeastHalf ==
    /\ \A o \in LibOutcomes :
        /\ 2 * o.r.confidence >= Scale
        /\ o.r.confidence >= o.p /\ o.r.confidence >= Scale - o.p
    /\ \A o \in AppOutcomes :
        /\ 2 * o.r.confidence >= PERCENT * Scale
        /\ o.r.confidence >= PERCENT * o.p
        /\ o.r.confidence >= PERCENT * (Scale - o.p)

\* a result for an output below 0.5, whose confidence is that of "Edible"
C2_Witness ==
    \E o \in LibOutcomes : 2 * o.p < Scale /\ o.p > 0 /\ o.r.confidence = Scale - o.p

IsUnitTensor(t, sz) ==
    /\ t.kind = "tensor"
    /\ t.shape = <<1, sz[2], sz[1], 3>>
    /\ \A v \in t.num : 0 <= v /\ v <= t.den

IsPreprocessCall ==
    /\ prog = "fn" /\ pc = "returned"
    /\ arg.fn \in {"MushroomClassifier.preprocess_image", "preprocess_image",
                   "preprocess_image_simple"}

\* the input forms each function takes: the class method dispatches on the
\* three of them, the app's function on arrays and PIL images, the
\* standalone function opens a path
FormsOf(fn) ==
    CASE fn = "MushroomClassifier.preprocess_image" -> {"Image", "ndarray", "str"}
      [] fn = "preprocess_image" -> {"Image", "ndarray"}
      [] fn = "preprocess_image_simple" -> {"str"}

C5_VerdictConsistent ==
    /\ \A o \in LibOutcomes :
        /\ o.r.prediction \in {"Edible", "Poisonous"}
        /\ (o.r.prediction = "Poisonous") = o.r.is_poisonous
        /\ o.r.is_poisonous = (2 * o.p > Scale)
        /\ o.r.confidence = IF o.r.prediction = "Poisonous"
                            THEN o.r.probabilities.poisonous
                            ELSE o.r.probabilities.edible
    /\ \A o \in AppOutcomes :
        /\ o.r.prediction \in {"Edible", "Poisonous"}
        /\ (o.r.prediction = "Poisonous") = o.r.is_poisonous
        /\ o.r.is_poisonous = (2 * o.p > Scale)
        /\ o.r.confidence = IF o.r.prediction = "Poisonous"
                            THEN o.r.poisonous_prob ELSE o.r.edible_prob
        /\ (pc \in {"footer", "done"} =>
              /\ Cardinality(Shown("danger-box") \cup Shown("success-box")) = 1
              /\ (Shown("danger-box") # {}) = (o.r.prediction = "Poisonous")
              /\ \A i \in Shown("danger-box") \cup Shown("success-box") :
                    /\ screen[i].text = o.r.prediction
                    /\ screen[i].value = o.r.confidence)

\* the app has rendered the verdict of an output of exactly 0.5
C5_Witness ==
    /\ pc = "done"
    /\ \E o \in AppOutcomes : 2 * o.p = Scale /\ o.r.prediction = "Edible"
    /\ Shown("success-box") # {}

(***************************************************************************)
(* C6.  Within one run of the app the steps happen in the order upload,    *)
(* preprocess, forward pass, render: model.predict is called only after    *)
(* preprocess_image returned a tensor for this upload, the verdict is      *)
(* rendered only after the forward pass returned a result, and a run makes *)
(* at most one inference call and at most one render.                      *)
(***************************************************************************)
C6_RequestOrder ==
    prog = "app" =>
        /\ Count(trace, "model.predict") <= 1
        /\ Count(trace, "render") <= 1
        /\ Count(trace, "preprocess_image") <= 1
        /\ \A i \in 1 .. Len(trace) :
            /\ (trace[i].ev = "preprocess_image" =>
                  /\ Before(trace, Event("file_uploader", 0), i)
                  /\ arg # None)
            /\ (trace[i].ev = "model.predict" =>
                  /\ Before(trace, Event("preprocess_image", 1), i)
                  /\ processed.kind = "tensor")
            /\ (trace[i].ev = "render" =>
                  /\ \E j \in 1 .. (i - 1) : trace[j].ev = "model.predict"
                  /\ result.kind = "result")
        /\ (Shown("danger-box") \cup Shown("success-box") \cup Shown("metric") # {}
              => Count(trace, "render") = 1)

\* a run that went through all four steps
C6_Witness ==
    /\ prog = "app" /\ pc = "done"
    /\ Count(trace, "render") = 1 /\ Count(trace, "model.predict") = 1

(***************************************************************************)
(* C7.  The model is loaded once: over any sequence of runs of the app,    *)
(* or of predict / predict_batch calls on one classifier, the model file   *)
(* is read at most once, every inference runs on that one handle (the      *)
(* cached one), and a run of the app starts with nothing but the cache     *)
(* left from the runs before it.                                           *)
(***************************************************************************)
C7_LoadedOnce ==
    /\ loads <= 1
    /\ used \subseteq {1}
    /\ (prog = "app" => used \subseteq {HandleId(cache)})
    /\ (prog = "lib" => used \subseteq {HandleId(model)})
    /\ (prog = "app" /\ pc = "loaded" =>
          /\ arg = None /\ image = None /\ processed = None /\ result = None
          /\ trace = <<Event("load_model", 0)>>
          /\ model = cache)

\* a later run of the app, about to run inference again on the cached handle
C7_Witness ==
    /\ prog = "app" /\ pc = "preprocessed"
    /\ used = {1} /\ loads = 1 /\ model = Handle(1)

(***************************************************************************)
(* C8.  No inference without a loaded model: constructing a classifier     *)
(* from a missing or unloadable file does not raise, load_model returns    *)
(* False and model is None; from then on predict and predict_batch raise   *)
(* RuntimeError before any preprocessing or model call; in the app a None  *)
(* model stops main before the file uploader.                              *)
(***************************************************************************)
C8_NoInferenceWithoutModel ==
    /\ (prog = "lib" /\ pc = "ready" /\ arg.fn = "__init__" =>
          /\ result.kind = "constructed"
          /\ result.load_model = (arg.exists /\ arg.loadable)
          /\ (model = None) = ~(arg.exists /\ arg.loadable))
    /\ (prog = "lib" /\ pc = "ready" /\ model = None
          /\ arg.fn \in {"predict", "predict_batch"} =>
          /\ result.kind = "raise" /\ result.exc = "RuntimeError"
          /\ trace = <<>>)
    /\ (prog = "app" /\ model = None =>
          /\ pc \in {"idle", "loaded", "stopped"}
          /\ Count(trace, "file_uploader") = 0)
    /\ 0 \notin used

\* predict_batch was called on a classifier whose model file is missing
C8_Witness ==
    /\ prog = "lib" /\ pc = "ready" /\ model = None /\ loads = 0
    /\ arg.fn = "predict_batch" /\ Len(arg.images) = MaxBatch
    /\ result.kind = "raise"

(***************************************************************************)
(* C9.  With a loaded model, predict_batch on n images returns a list of   *)
(* n entries in input order: entry i is what predict returns on image i    *)
(* when it succeeds, and a dictionary with only an 'error' key when it     *)
(* fails; a failure stops nothing and predict_batch does not raise.        *)
(***************************************************************************)
C9_BatchEntries ==
    prog = "lib" /\ pc = "ready" /\ model # None /\ arg.fn = "predict_batch" =>
        /\ result.kind = "list"
        /\ Len(result.items) = Len(arg.images)
        /\ \A i \in 1 .. Len(arg.images) :
            LET one == LibPredict(model, img_size, arg.images[i]).ret IN
            IF one.kind = "raise"
            THEN /\ result.items[i].kind = "error"
                 /\ DOMAIN result.items[i] = {"kind", "error"}
            ELSE result.items[i] = one

\* a batch whose first image fails and whose last image succeeds
C9_Witness ==
    /\ prog = "lib" /\ pc = "ready" /\ model # None /\ arg.fn = "predict_batch"
    /\ Len(arg.images) = MaxBatch
    /\ result.kind = "list"
    /\ result.items[1].kind = "error"
    /\ result.items[MaxBatch].kind = "result"

(***************************************************************************)
(* C10.  validate_image returns its outcome as a pair and checks in a      *)
(* fixed order: a missing path, then a size strictly above max_size_mb     *)
(* megabytes, then an image PIL cannot open and verify, else (True, None); *)
(* the message is None exactly when the first component is True.           *)
(***************************************************************************)
C10_ValidateOrder ==
    prog = "fn" /\ pc = "returned" /\ arg.fn = "validate_image" =>
        LET f == arg.file
            limit == arg.max_size_mb * KIB * KIB
        IN /\ result.kind = "tuple"
           /\ (~f.exists =>
                 result.error_message = Str("File does not exist"))
           /\ (f.exists /\ f.bytes > limit =>
                 result.error_message = Str("File too large"))
           /\ (f.exists /\ f.bytes <= limit /\ ~f.verifies =>
                 result.error_message = Str("Invalid image file"))
           /\ (f.exists /\ f.bytes <= limit /\ f.verifies =>
                 result.error_message = None)
           /\ result.is_valid = (result.error_message = None)

\* a valid image of exactly max_size_mb megabytes
C10_Witness ==
    /\ prog = "fn" /\ pc = "returned" /\ arg.fn = "validate_image"
    /\ arg.file.exists /\ arg.file.verifies
    /\ arg.file.bytes = arg.max_size_mb * KIB * KIB
    /\ result.is_valid

=============================================================================
